---------------------------- MODULE Spec2Model ----------------------------
(***************************************************************************)
(* The GraphQL endpoint of rsschool-nodejs-task-graphql.                   *)
(*                                                                         *)
(* One POST handler (two variants: with and without the depth-limit pass)  *)
(* takes a parsed document, validates it and hands it to graphql(), which  *)
(* executes it against the schema built by createGraphQLSchema(prisma).    *)
(* The schema declaration (types, nullability, resolvers) and the handler  *)
(* are the repository's code; validation and execution follow the          *)
(* reference algorithm of graphql-js that the handler calls, and the       *)
(* depth rule is graphql-depth-limit's determineDepth.  The store behind   *)
(* prisma is a set of tables; its calls may reject.                        *)
(***************************************************************************)
EXTENDS Integers, Sequences, FiniteSets, TLC

(***************************************************************************)
(* Bounds of the model.                                                    *)
(***************************************************************************)
MaxDepth == 7        \* deepest nesting of the generated chain documents
MaxWidth == 2        \* most sibling leaves at the deepest level of a chain
MaxCreated == 1      \* most users createUser adds in one run

(***************************************************************************)
(* Program constant: const limit = 5 of the depth-limiting handler.        *)
(***************************************************************************)
limit == 5

(***************************************************************************)
(* Small helpers on sequences.                                             *)
(***************************************************************************)
Range(s) == {s[i] : i \in DOMAIN s}

RECURSIVE SelectSeqBy(_, _)
\* the rows of a table that satisfy a where-clause, in table order
SelectSeqBy(rows, keep) ==
    IF rows = <<>> THEN <<>>
    ELSE IF Head(rows) \in keep
         THEN <<Head(rows)>> \o SelectSeqBy(Tail(rows), keep)
         ELSE SelectSeqBy(Tail(rows), keep)

RECURSIVE SumSeq(_)
SumSeq(s) == IF s = <<>> THEN 0 ELSE Head(s) + SumSeq(Tail(s))

RECURSIVE MaxSeq(_)
MaxSeq(s) ==
    IF s = <<>> THEN 0
    ELSE LET m == MaxSeq(Tail(s)) IN IF Head(s) > m THEN Head(s) ELSE m

(***************************************************************************)
(* The type registry: for every object type, its fields and the declared   *)
(* type of each.  t is the named type, nn whether the field is wrapped in  *)
(* GraphQLNonNull, list whether it is a GraphQLList, inn whether the       *)
(* list's items are GraphQLNonNull.  Scalars and enums are leaves.         *)
(***************************************************************************)
Leaf == "Leaf"

Ty(t, nn, list, inn) == [t |-> t, nn |-> nn, list |-> list, inn |-> inn]

NonNullListOf(t) == Ty(t, TRUE, TRUE, TRUE)

MemberTypeFields ==
    [ id |-> Ty(Leaf, TRUE, FALSE, FALSE),
      discount |-> Ty(Leaf, TRUE, FALSE, FALSE) ]

PostFields ==
    [ id |-> Ty(Leaf, TRUE, FALSE, FALSE),
      title |-> Ty(Leaf, TRUE, FALSE, FALSE) ]

ProfileMemberTypeNullable == Ty("MemberType", FALSE, FALSE, FALSE)

ProfileMemberType == Ty("MemberType", TRUE, FALSE, FALSE)

ProfileFields ==
    [ id |-> Ty(Leaf, TRUE, FALSE, FALSE),
      memberType |-> ProfileMemberType ]

UserSubscriptionsNullableItems == Ty("User", TRUE, TRUE, FALSE)

UserSubscriptions == NonNullListOf("User")

UserFields ==
    [ id |-> Ty(Leaf, TRUE, FALSE, FALSE),
      name |-> Ty(Leaf, TRUE, FALSE, FALSE),
      balance |-> Ty(Leaf, TRUE, FALSE, FALSE),
      profile |-> Ty("Profile", FALSE, FALSE, FALSE),
      posts |-> NonNullListOf("Post"),
      userSubscribedTo |-> UserSubscriptions,
      subscribedToUser |-> UserSubscriptions ]

RootQueryTypeFields ==
    [ memberTypes |-> NonNullListOf("MemberType"),
      memberType |-> Ty("MemberType", FALSE, FALSE, FALSE),
      users |-> NonNullListOf("User"),
      user |-> Ty("User", FALSE, FALSE, FALSE),
      posts |-> NonNullListOf("Post"),
      post |-> Ty("Post", FALSE, FALSE, FALSE),
      profiles |-> NonNullListOf("Profile"),
      profile |-> Ty("Profile", FALSE, FALSE, FALSE) ]

MutationsDeleteUserNullable == Ty(Leaf, FALSE, FALSE, FALSE)

MutationsDeleteUser == Ty(Leaf, TRUE, FALSE, FALSE)

MutationsFields ==
    [ createUser |-> Ty("User", TRUE, FALSE, FALSE),
      changeUser |-> Ty("User", TRUE, FALSE, FALSE),
      deleteUser |-> MutationsDeleteUser,
      subscribeTo |-> Ty(Leaf, TRUE, FALSE, FALSE),
      unsubscribeFrom |-> Ty(Leaf, TRUE, FALSE, FALSE) ]

Schema ==
    [ MemberType |-> MemberTypeFields,
      Post |-> PostFields,
      Profile |-> ProfileFields,
      User |-> UserFields,
      RootQueryType |-> RootQueryTypeFields,
      Mutations |-> MutationsFields ]

HasField(T, f) == f \in DOMAIN Schema[T]

FieldType(T, f) == Schema[T][f]

\* new GraphQLSchema({ query: RootQueryType, mutation: Mutations })
RootType(op) == IF op = "mutation" THEN "Mutations" ELSE "RootQueryType"

\* the arguments a field declares; all of them are GraphQLNonNull
FieldArgs(T, f) ==
    IF T = "RootQueryType" /\ f \in {"memberType", "user", "post", "profile"}
        THEN {"id"}
    ELSE IF T = "Mutations" /\ f = "createUser" THEN {"dto"}
    ELSE IF T = "Mutations" /\ f = "changeUser" THEN {"id", "dto"}
    ELSE IF T = "Mutations" /\ f = "deleteUser" THEN {"id"}
    ELSE IF T = "Mutations" /\ f \in {"subscribeTo", "unsubscribeFrom"}
        THEN {"userId", "authorId"}
    ELSE {}

(***************************************************************************)
(* Documents.  A selection is a field name, its response key (the alias,   *)
(* or the name), the arguments supplied and the child selection set.       *)
(***************************************************************************)
NoArgs == [a \in {} |-> 0]

F(name, args, sel) == [name |-> name, key |-> name, args |-> args, sel |-> sel]

Aliased(key, s) == [s EXCEPT !.key = key]

L(name) == F(name, NoArgs, <<>>)

Document(op, sel) == [op |-> op, syntaxOk |-> TRUE, sel |-> sel]


(***************************************************************************)
(* Errors of a response: a message (the pieces the code concatenates, in   *)
(* order) and a path (response keys and list indices, as strings; empty    *)
(* for a validation error).                                                *)
(***************************************************************************)
GqlError(msg, path) == [msg |-> msg, path |-> path]

RECURSIVE SetToSeq(_)
SetToSeq(S) ==
    IF S = {} THEN <<>>
    ELSE LET x == CHOOSE y \in S : TRUE IN <<x>> \o SetToSeq(S \ {x})

(***************************************************************************)
(* validate(schema, ast) with graphql-js's specified rules, as graphql()   *)
(* runs it before executing: the rules a document of this model can break  *)
(* (FieldsOnCorrectType, ScalarLeafs, ProvidedRequiredArguments,           *)
(* KnownArgumentNames).  One error per offence.                            *)
(***************************************************************************)
RECURSIVE ValidateSelections(_, _)
ValidateSelections(T, sels) ==
    IF sels = <<>> THEN <<>>
    ELSE
      LET s == Head(sels)
          here ==
            IF ~HasField(T, s.name)
            THEN << GqlError(<<"Cannot query field ", s.name, " on type ", T>>, <<>>) >>
            ELSE
              LET ft == FieldType(T, s.name)
                  missing == SetToSeq(FieldArgs(T, s.name) \ DOMAIN s.args)
                  unknown == SetToSeq(DOMAIN s.args \ FieldArgs(T, s.name))
                  argErrs ==
                    [i \in 1..Len(missing) |->
                        GqlError(<<"Field ", s.name, " argument ", missing[i],
                                   " is required, but it was not provided.">>, <<>>)]
                    \o
                    [i \in 1..Len(unknown) |->
                        GqlError(<<"Unknown argument ", unknown[i],
                                   " on field ", T, ".", s.name>>, <<>>)]
              IN  argErrs \o
                  ( IF ft.t = Leaf
                    THEN IF s.sel = <<>> THEN <<>>
                         ELSE << GqlError(<<"Field ", s.name,
                                   " must not have a selection">>, <<>>) >>
                    ELSE IF s.sel = <<>>
                         THEN << GqlError(<<"Field ", s.name,
                                   " must have a selection of subfields">>, <<>>) >>
                         ELSE ValidateSelections(ft.t, s.sel) )
      IN  here \o ValidateSelections(T, Tail(sels))

SpecifiedRulesErrors(doc) == ValidateSelections(RootType(doc.op), doc.sel)

(***************************************************************************)
(* depthLimit(limit): determineDepth walks the selection tree with the     *)
(* depth reached so far, root fields at 0.  A node met at a depth above    *)
(* maxDepth is reported and not descended into; a field without a          *)
(* selection set ends the walk.  DepthReports counts the reports.          *)
(***************************************************************************)
RECURSIVE DepthReportsOffByOne(_, _, _)
DepthReportsOffByOne(sels, depthSoFar, maxDepth) ==
    IF sels = <<>> THEN 0
    ELSE LET s == Head(sels)
             here == IF depthSoFar >= maxDepth THEN 1
                     ELSE IF s.sel = <<>> THEN 0
                     ELSE DepthReportsOffByOne(s.sel, depthSoFar + 1, maxDepth)
         IN  here + DepthReportsOffByOne(Tail(sels), depthSoFar, maxDepth)

RECURSIVE DepthReports(_, _, _)
DepthReports(sels, depthSoFar, maxDepth) ==
    IF sels = <<>> THEN 0
    ELSE LET s == Head(sels)
             here == IF depthSoFar > maxDepth THEN 1
                     ELSE IF s.sel = <<>> THEN 0
                     ELSE DepthReports(s.sel, depthSoFar + 1, maxDepth)
         IN  here + DepthReports(Tail(sels), depthSoFar, maxDepth)

\* validate(schema, parse(query), [depthLimit(limit)]): the depth rule alone
DepthLimitErrors(doc) ==
    [i \in 1..DepthReports(doc.sel, 0, limit) |->
        GqlError(<<"'", doc.op, "' exceeds maximum operation depth of ",
                   ToString(limit)>>, <<>>)]

(***************************************************************************)
(* The store behind prisma: one sequence of rows per table, in the order   *)
(* the store returns them.  A call on the table named by the fault of the  *)
(* request rejects; kind says whether the rejection is an Error instance.  *)
(***************************************************************************)
NoFault == [table |-> "none", kind |-> "none"]

InternalText == "connect ECONNREFUSED db:5432"

RepoOk(v) == [ok |-> TRUE, v |-> v]

RepoThrow(isError, message) ==
    [ok |-> FALSE, isError |-> isError, message |-> message]

FaultThrow(flt) == RepoThrow(flt.kind = "Error", InternalText)

Null == [k |-> "null"]

RowVal(r) == [k |-> "row", r |-> r]

ListVal(items) == [k |-> "list", items |-> items]

LeafVal(x) == [k |-> "leaf", x |-> x]

\* prisma.<table>.findMany({ where }): the matching rows, in table order
FindMany(st, flt, table, keep) ==
    IF flt.table = table THEN FaultThrow(flt)
    ELSE RepoOk(ListVal([i \in 1..Len(SelectSeqBy(st[table], keep)) |->
                            RowVal(SelectSeqBy(st[table], keep)[i])]))

\* prisma.<table>.findFirst({ where }): the first matching row, or null
FindFirst(st, flt, table, keep) ==
    IF flt.table = table THEN FaultThrow(flt)
    ELSE LET found == SelectSeqBy(st[table], keep)
         IN  RepoOk(IF found = <<>> THEN Null ELSE RowVal(found[1]))

RowsWhere(st, table, field, value) ==
    {r \in Range(st[table]) : r[field] = value}

AllRows(st, table) == Range(st[table])


(***************************************************************************)
(* What a resolver hands to the engine: a value, or a rejection whose      *)
(* message is the list of pieces the code concatenated.                    *)
(***************************************************************************)
Resolved(v) == [k |-> "ok", v |-> v]

Rejected(msg) == [k |-> "err", msg |-> msg]

\* error.message of a caught value: undefined when it is no Error
MessageOf(r) == IF r.isError THEN r.message ELSE "undefined"

\* a resolver without try/catch: the rejection reaches graphql-js, which
\* keeps an Error's message and wraps any other value
NoCatch(r) ==
    IF r.ok THEN Resolved(r.v)
    ELSE IF r.isError THEN Rejected(<<r.message>>)
    ELSE Rejected(<<"Unexpected error value: ", r.message>>)

\* try { return await ... } catch (error) { if (error instanceof Error) throw
\* new Error(`Error fetching X: ${error.message}`); throw new Error(`Unknown ...`) }
FetchCatchGeneric(what, r) ==
    IF r.ok THEN Resolved(r.v)
    ELSE Rejected(<<"Unknown error fetching ", what>>)

FetchCatch(what, r) ==
    IF r.ok THEN Resolved(r.v)
    ELSE IF r.isError THEN Rejected(<<"Error fetching ", what, ": ", r.message>>)
    ELSE Rejected(<<"Unknown error fetching ", what>>)

\* try { ... } catch (error) { throw new Error(`Failed to X: ${error.message}`) }
MutationCatch(prefix, r) ==
    IF r.ok THEN Resolved(r.v)
    ELSE Rejected(<<prefix, MessageOf(r)>>)

\* the first rejection among the calls Promise.all waits for
RECURSIVE FirstFailure(_)
FirstFailure(rs) ==
    IF ~Head(rs).ok THEN Head(rs) ELSE FirstFailure(Tail(rs))

RelatedUsersBySubscriber(st, flt, whereField, userField, id) ==
    LET subscribes == FindMany(st, flt, "subscribersOnAuthors",
                         RowsWhere(st, "subscribersOnAuthors", "subscriberId", id))
    IN  IF ~subscribes.ok THEN NoCatch(subscribes)
        ELSE
          LET rows == subscribes.v.items
              lookups == [i \in 1..Len(rows) |->
                            FindFirst(st, flt, "user",
                                RowsWhere(st, "user", "id", rows[i].r[userField]))]
          IN  IF \E i \in 1..Len(rows) : ~lookups[i].ok
              THEN NoCatch(FirstFailure(lookups))
              ELSE Resolved(ListVal([i \in 1..Len(rows) |-> lookups[i].v]))

\* findMany on the relation table, then Promise.all of one user.findFirst per
\* row: the users (or nulls) in the order of the rows
RelatedUsers(st, flt, whereField, userField, id) ==
    LET subscribes == FindMany(st, flt, "subscribersOnAuthors",
                         RowsWhere(st, "subscribersOnAuthors", whereField, id))
    IN  IF ~subscribes.ok THEN NoCatch(subscribes)
        ELSE
          LET rows == subscribes.v.items
              lookups == [i \in 1..Len(rows) |->
                            FindFirst(st, flt, "user",
                                RowsWhere(st, "user", "id", rows[i].r[userField]))]
          IN  IF \E i \in 1..Len(rows) : ~lookups[i].ok
              THEN NoCatch(FirstFailure(lookups))
              ELSE Resolved(ListVal([i \in 1..Len(rows) |-> lookups[i].v]))

UserByIdWrongKey(st, flt, id) ==
    FetchCatch("user", FindFirst(st, flt, "user", RowsWhere(st, "user", "balance", id)))

\* RootQueryType.user
UserById(st, flt, id) ==
    FetchCatch("user", FindFirst(st, flt, "user", RowsWhere(st, "user", "id", id)))

UserPostsAll(st, flt, user) ==
    NoCatch(FindMany(st, flt, "post", AllRows(st, "post")))

\* User.posts
UserPosts(st, flt, user) ==
    NoCatch(FindMany(st, flt, "post", RowsWhere(st, "post", "authorId", user.id)))

SingleEntityThrowsWhenAbsent(st, flt, table, id) ==
    LET r == FindFirst(st, flt, table, RowsWhere(st, table, "id", id))
    IN  IF r.ok /\ r.v.k = "null"
        THEN Rejected(<<"Error fetching ", table, ": ", "not found">>)
        ELSE FetchCatch(table, r)

\* RootQueryType.memberType, post, profile
SingleEntity(st, flt, table, id) ==
    FetchCatch(table, FindFirst(st, flt, table, RowsWhere(st, table, "id", id)))

(***************************************************************************)
(* The resolvers of the read side.  A field without a resolver uses the    *)
(* default one, which reads the property of that name off the parent.      *)
(***************************************************************************)
QueryResolve(T, f, parent, args, st, flt) ==
    CASE T = "Profile" /\ f = "memberType" ->
            NoCatch(FindFirst(st, flt, "memberType",
                        RowsWhere(st, "memberType", "id", parent.memberTypeId)))
      [] T = "User" /\ f = "profile" ->
            NoCatch(FindFirst(st, flt, "profile",
                        RowsWhere(st, "profile", "userId", parent.id)))
      [] T = "User" /\ f = "posts" -> UserPosts(st, flt, parent)
      [] T = "User" /\ f = "userSubscribedTo" ->
            RelatedUsers(st, flt, "subscriberId", "authorId", parent.id)
      [] T = "User" /\ f = "subscribedToUser" ->
            RelatedUsers(st, flt, "authorId", "subscriberId", parent.id)
      [] T = "RootQueryType" /\ f = "memberTypes" ->
            NoCatch(FindMany(st, flt, "memberType", AllRows(st, "memberType")))
      [] T = "RootQueryType" /\ f = "memberType" ->
            SingleEntity(st, flt, "memberType", args.id)
      [] T = "RootQueryType" /\ f = "users" ->
            NoCatch(FindMany(st, flt, "user", AllRows(st, "user")))
      [] T = "RootQueryType" /\ f = "user" -> UserById(st, flt, args.id)
      [] T = "RootQueryType" /\ f = "posts" ->
            NoCatch(FindMany(st, flt, "post", AllRows(st, "post")))
      [] T = "RootQueryType" /\ f = "post" ->
            SingleEntity(st, flt, "post", args.id)
      [] T = "RootQueryType" /\ f = "profiles" ->
            NoCatch(FindMany(st, flt, "profile", AllRows(st, "profile")))
      [] T = "RootQueryType" /\ f = "profile" ->
            SingleEntity(st, flt, "profile", args.id)
      [] OTHER -> Resolved(LeafVal(parent[f]))

(***************************************************************************)
(* Completion of a resolved value against the declared type of its field   *)
(* (graphql-js executeField / completeValue / completeListValue /          *)
(* handleFieldError).  A result is a value with the errors recorded while  *)
(* producing it, or an error on its way up to the nearest nullable         *)
(* position.  Sibling fields and list items are completed in document      *)
(* order and the first error on its way up ends the selection set.         *)
(***************************************************************************)
Obj(fields) == [k |-> "obj", f |-> fields]

Done(v, errs) == [thrown |-> FALSE, v |-> v, errs |-> errs]

Thrown(e, errs) == [thrown |-> TRUE, e |-> e, errs |-> errs]

NonNullViolation(T, f, path) ==
    GqlError(<<"Cannot return null for non-nullable field ", T, ".", f, ".">>, path)

\* handleFieldError: a nullable position records the error and becomes null;
\* a non-null position passes it up
HandleFieldError(nn, r) ==
    IF r.thrown /\ ~nn THEN Done(Null, r.errs \o <<r.e>>) ELSE r

RECURSIVE ExecuteFields(_, _, _, _, _, _)
RECURSIVE CompleteValue(_, _, _, _, _, _, _)
RECURSIVE CompleteListFrom(_, _, _, _, _, _, _, _)

\* completeValue of v against type ft at a field or list-item position: the
\* inner value by its kind; null in a non-null position is an error; an error
\* is handled by the nullability of the position
CompleteValue(ft, T, s, v, st, flt, path) ==
    LET c == IF v.k = "null" THEN Done(Null, <<>>)
             ELSE IF ft.list
                  THEN CompleteListFrom(ft, T, s, v.items, 1, st, flt, path)
             ELSE IF ft.t = Leaf THEN Done(LeafVal(v.x), <<>>)
             ELSE ExecuteFields(ft.t, s.sel, v.r, st, flt, path)
    IN  IF c.thrown THEN HandleFieldError(ft.nn, c)
        ELSE IF ft.nn /\ c.v.k = "null"
             THEN Thrown(NonNullViolation(T, s.name, path), c.errs)
        ELSE c

\* completeListValue: the items in order, each at its index
CompleteListFrom(ft, T, s, items, i, st, flt, path) ==
    IF i > Len(items) THEN Done(ListVal(<<>>), <<>>)
    ELSE
      LET r == CompleteValue(Ty(ft.t, ft.inn, FALSE, FALSE), T, s, items[i],
                             st, flt, path \o <<ToString(i - 1)>>)
      IN  IF r.thrown THEN r
          ELSE LET rest == CompleteListFrom(ft, T, s, items, i + 1, st, flt, path)
               IN  IF rest.thrown THEN Thrown(rest.e, r.errs \o rest.errs)
                   ELSE Done(ListVal(<<r.v>> \o rest.v.items), r.errs \o rest.errs)

\* executeField once the resolver has answered with out
CompleteField(T, s, out, st, flt, path) ==
    IF out.k = "err"
    THEN HandleFieldError(FieldType(T, s.name).nn,
                          Thrown(GqlError(out.msg, path), <<>>))
    ELSE CompleteValue(FieldType(T, s.name), T, s, out.v, st, flt, path)

ExecuteFields(T, sels, parent, st, flt, path) ==
    IF sels = <<>> THEN Done(Obj(<<>>), <<>>)
    ELSE
      LET s == Head(sels)
          r == CompleteField(T, s, QueryResolve(T, s.name, parent, s.args, st, flt),
                             st, flt, path \o <<s.key>>)
      IN  IF r.thrown THEN r
          ELSE LET rest == ExecuteFields(T, Tail(sels), parent, st, flt, path)
               IN  IF rest.thrown THEN Thrown(rest.e, r.errs \o rest.errs)
                   ELSE Done(Obj(<<[key |-> s.key, v |-> r.v]>> \o rest.v.f),
                             r.errs \o rest.errs)


(***************************************************************************)
(* The write side of the store.  prisma.user.create gives the row a new    *)
(* id; update and delete reject when no row has the id; the relation       *)
(* table is keyed by (subscriberId, authorId), so a second create of the   *)
(* same pair rejects.  The code issues no other call: nothing else of the  *)
(* store changes.                                                          *)
(***************************************************************************)
RECURSIVE RemoveRows(_, _)
RemoveRows(rows, gone) ==
    IF rows = <<>> THEN <<>>
    ELSE IF Head(rows) \in gone THEN RemoveRows(Tail(rows), gone)
         ELSE <<Head(rows)>> \o RemoveRows(Tail(rows), gone)

Effect(r, st, made) == [r |-> r, st |-> st, made |-> made]

UserCreateDropsBalance(st, flt, nid, dto) ==
    IF flt.table = "user" THEN Effect(FaultThrow(flt), st, 0)
    ELSE LET row == [id |-> ToString(nid), name |-> dto.name, balance |-> 0]
         IN  Effect(RepoOk(RowVal(row)),
                    [st EXCEPT !.user = Append(@, row)], 1)

\* prisma.user.create({ data: dto })
UserCreate(st, flt, nid, dto) ==
    IF flt.table = "user" THEN Effect(FaultThrow(flt), st, 0)
    ELSE LET row == [id |-> ToString(nid), name |-> dto.name, balance |-> dto.balance]
         IN  Effect(RepoOk(RowVal(row)),
                    [st EXCEPT !.user = Append(@, row)], 1)

\* prisma.user.update({ where: { id }, data: dto }): dto may leave fields out
UserUpdate(st, flt, id, dto) ==
    IF flt.table = "user" THEN Effect(FaultThrow(flt), st, 0)
    ELSE IF RowsWhere(st, "user", "id", id) = {}
    THEN Effect(RepoThrow(TRUE, "Record to update not found."), st, 0)
    ELSE
      LET change(row) ==
            IF row.id # id THEN row
            ELSE [id |-> row.id,
                  name |-> IF "name" \in DOMAIN dto THEN dto.name ELSE row.name,
                  balance |-> IF "balance" \in DOMAIN dto THEN dto.balance
                              ELSE row.balance]
          users == [i \in 1..Len(st.user) |-> change(st.user[i])]
      IN  Effect(RepoOk(RowVal(CHOOSE r \in Range(users) : r.id = id)),
                 [st EXCEPT !.user = users], 0)

\* prisma.user.delete({ where: { id } })
UserDelete(st, flt, id) ==
    IF flt.table = "user" THEN Effect(FaultThrow(flt), st, 0)
    ELSE IF RowsWhere(st, "user", "id", id) = {}
    THEN Effect(RepoThrow(TRUE, "Record to delete does not exist."), st, 0)
    ELSE Effect(RepoOk(LeafVal("User deleted")),
                [st EXCEPT !.user = RemoveRows(@, RowsWhere(st, "user", "id", id))], 0)

SubscriptionCreateReversed(st, flt, userId, authorId) ==
    LET row == [subscriberId |-> authorId, authorId |-> userId]
    IN  IF flt.table = "subscribersOnAuthors" THEN Effect(FaultThrow(flt), st, 0)
        ELSE IF row \in Range(st.subscribersOnAuthors)
        THEN Effect(RepoThrow(TRUE, "Unique constraint failed"), st, 0)
        ELSE Effect(RepoOk(LeafVal("Subscribed")),
                    [st EXCEPT !.subscribersOnAuthors = Append(@, row)], 0)

\* prisma.subscribersOnAuthors.create({ data: { subscriberId: userId, authorId } })
SubscriptionCreate(st, flt, userId, authorId) ==
    LET row == [subscriberId |-> userId, authorId |-> authorId]
    IN  IF flt.table = "subscribersOnAuthors" THEN Effect(FaultThrow(flt), st, 0)
        ELSE IF row \in Range(st.subscribersOnAuthors)
        THEN Effect(RepoThrow(TRUE, "Unique constraint failed"), st, 0)
        ELSE Effect(RepoOk(LeafVal("Subscribed")),
                    [st EXCEPT !.subscribersOnAuthors = Append(@, row)], 0)

\* prisma.subscribersOnAuthors.delete({ where: { subscriberId_authorId } })
SubscriptionDelete(st, flt, userId, authorId) ==
    LET row == [subscriberId |-> userId, authorId |-> authorId]
    IN  IF flt.table = "subscribersOnAuthors" THEN Effect(FaultThrow(flt), st, 0)
        ELSE IF row \notin Range(st.subscribersOnAuthors)
        THEN Effect(RepoThrow(TRUE, "Record to delete does not exist."), st, 0)
        ELSE Effect(RepoOk(LeafVal("Unsubscribed")),
                    [st EXCEPT !.subscribersOnAuthors = RemoveRows(@, {row})], 0)

(***************************************************************************)
(* The resolvers of the Mutations type: the store call inside try/catch.   *)
(* The answer is the resolver's outcome, the store after the call and the  *)
(* number of ids it used.                                                  *)
(***************************************************************************)
Caught(prefix, e) == [out |-> MutationCatch(prefix, e.r), st |-> e.st, made |-> e.made]

MutationResolve(f, args, st, flt, nid) ==
    CASE f = "createUser" ->
            Caught("Failed to create user: ", UserCreate(st, flt, nid, args.dto))
      [] f = "changeUser" ->
            Caught("Failed to update user: ", UserUpdate(st, flt, args.id, args.dto))
      [] f = "deleteUser" ->
            Caught("Failed to delete user: ", UserDelete(st, flt, args.id))
      [] f = "subscribeTo" ->
            Caught("Failed to subscribe: ",
                   SubscriptionCreate(st, flt, args.userId, args.authorId))
      [] f = "unsubscribeFrom" ->
            Caught("Failed to unsubscribe: ",
                   SubscriptionDelete(st, flt, args.userId, args.authorId))


(***************************************************************************)
(* The requests of the model.                                              *)
(***************************************************************************)
LeafNames == <<"id", "name", "balance">>

Leaves(w) == [i \in 1..w |-> L(LeafNames[i])]

RECURSIVE Nest(_, _)
\* k levels of userSubscribedTo above w leaves
Nest(k, w) ==
    IF k = 0 THEN Leaves(w)
    ELSE << F("userSubscribedTo", NoArgs, Nest(k - 1, w)) >>

\* { user(id: 1) { userSubscribedTo { ... { id name } } } } with its leaves at depth d
ChainDoc(d, w) ==
    Document("query", << F("user", [id |-> "1"], Nest(d - 1, w)) >>)

ChainDocs == {ChainDoc(d, w) : d \in 1..MaxDepth, w \in 1..MaxWidth}

DtoA == [name |-> "A", balance |-> 0]

DtoB == [name |-> "B", balance |-> 1]

UserIds == {ToString(n) : n \in 0..(2 + MaxCreated)}

\* { users { id name posts { title } } }
UsersWithPostsDoc ==
    Document("query",
        << F("users", NoArgs, << L("id"), L("name"), F("posts", NoArgs, << L("title") >>) >>) >>)

\* { user(id: n) { id name balance } }
UserDoc(n) ==
    Document("query", << F("user", [id |-> n], << L("id"), L("name"), L("balance") >>) >>)

\* one single-entity root field, alone or beside a list field
SingleEntityDocs ==
    { Document("query", << F("memberType", [id |-> "BUSINESS"], << L("id") >>) >>),
      Document("query", << F("post", [id |-> "0"], << L("id"), L("title") >>) >>),
      Document("query", << F("profile", [id |-> "0"], << L("id") >>) >>),
      Document("query", << F("post", [id |-> "11"], << L("title") >>),
                           F("profile", [id |-> "0"], << L("id") >>),
                           F("memberTypes", NoArgs, << L("id") >>) >>) }

\* { profile(id: p) { id memberType { id } } posts { title } }
ProfileDoc(p) ==
    Document("query",
        << F("profile", [id |-> p], << L("id"), F("memberType", NoArgs, << L("id") >>) >>),
           F("posts", NoArgs, << L("title") >>) >>)

\* { user(id: n) { id profile { id memberType { id } } } }
UserProfileDoc(n) ==
    Document("query",
        << F("user", [id |-> n],
              << L("id"),
                 F("profile", NoArgs,
                    << L("id"), F("memberType", NoArgs, << L("id") >>) >>) >>) >>)

\* { user(id: n) { id <relation> { id } } posts { title } }
RelationDoc(n, relation) ==
    Document("query",
        << F("user", [id |-> n], << L("id"), F(relation, NoArgs, << L("id") >>) >>),
           F("posts", NoArgs, << L("title") >>) >>)

\* { users { id userSubscribedTo { id } } }
UsersRelationDoc ==
    Document("query",
        << F("users", NoArgs, << L("id"), F("userSubscribedTo", NoArgs, << L("id") >>) >>) >>)

\* { a: user(id: 1) { id } b: user(id: 2) { id } }
AliasedUsersDoc ==
    Document("query",
        << Aliased("a", F("user", [id |-> "1"], << L("id") >>)),
           Aliased("b", F("user", [id |-> "2"], << L("id") >>)) >>)

\* documents the specified rules reject
InvalidDocs ==
    { Document("query", << F("users", NoArgs, << L("id"), L("email") >>) >>),
      Document("query", << F("user", NoArgs, << L("id") >>) >>),
      Document("query", << L("users") >>),
      Document("mutation", << F("createUser", NoArgs, << L("id") >>) >>),
      Document("mutation", << F("deleteUser", [id |-> "2"], <<>>),
                              F("createUser", [dto |-> DtoA], << L("email") >>) >>) }

\* a body whose query text does not parse
UnparsableDoc == [op |-> "query", syntaxOk |-> FALSE, sel |-> <<>>]

CreateUser(dto) ==
    F("createUser", [dto |-> dto],
      << L("id"), L("name"), F("posts", NoArgs, << L("title") >>) >>)

\* the (userId, authorId) pairs the relation mutations are called with
SubPairs == { <<"1", "2">>, <<"2", "1">> }

\* mutation { subscribeTo(userId: u, authorId: a) }
SubscribeDoc(u, a) ==
    Document("mutation", << F("subscribeTo", [userId |-> u, authorId |-> a], <<>>) >>)

\* mutation { unsubscribeFrom(userId: u, authorId: a) }
UnsubscribeDoc(u, a) ==
    Document("mutation", << F("unsubscribeFrom", [userId |-> u, authorId |-> a], <<>>) >>)

\* mutation { subscribeTo(userId: u, authorId: a) unsubscribeFrom(userId: u, authorId: a) }
ToggleDoc(u, a) ==
    Document("mutation",
        << F("subscribeTo", [userId |-> u, authorId |-> a], <<>>),
           F("unsubscribeFrom", [userId |-> u, authorId |-> a], <<>>) >>)

RelationMutationDocs ==
    UNION { {SubscribeDoc(p[1], p[2]), UnsubscribeDoc(p[1], p[2]), ToggleDoc(p[1], p[2])} :
              p \in SubPairs }

MutationDocs ==
    RelationMutationDocs \cup
    { Document("mutation", << CreateUser(DtoA) >>),
      Document("mutation", << CreateUser(DtoB), F("deleteUser", [id |-> "2"], <<>>) >>),
      Document("mutation", << F("deleteUser", [id |-> "0"], <<>>), CreateUser(DtoA) >>),
      Document("mutation", << F("deleteUser", [id |-> "2"], <<>>) >>),
      Document("mutation",
          << F("changeUser", [id |-> "3", dto |-> [name |-> "C"]], << L("id"), L("name") >>) >>),
      Document("mutation", << F("subscribeTo", [userId |-> "1", authorId |-> "2"], <<>>),
                              F("unsubscribeFrom", [userId |-> "2", authorId |-> "1"], <<>>) >>) }

QueryDocs ==
    ChainDocs \cup {UsersWithPostsDoc, UsersRelationDoc, AliasedUsersDoc}
      \cup {UserDoc(n) : n \in UserIds}
      \cup SingleEntityDocs
      \cup {ProfileDoc(p) : p \in {"21", "22"}}
      \cup {UserProfileDoc(n) : n \in {"1", "2"}}
      \cup {RelationDoc(n, r) : n \in {"1", "2"},
                                 r \in {"userSubscribedTo", "subscribedToUser"}}

Documents == QueryDocs \cup MutationDocs \cup InvalidDocs \cup {UnparsableDoc}

RECURSIVE CountField(_, _)
CountField(sels, f) ==
    IF sels = <<>> THEN 0
    ELSE (IF Head(sels).name = f THEN 1 ELSE 0) + CountField(Tail(sels), f)

\* the tables the resolvers of a selection set call
TablesOfField(T, f) ==
    CASE T = "Profile" /\ f = "memberType" -> {"memberType"}
      [] T = "User" /\ f = "profile" -> {"profile"}
      [] T = "User" /\ f = "posts" -> {"post"}
      [] T = "User" /\ f \in {"userSubscribedTo", "subscribedToUser"} ->
            {"subscribersOnAuthors", "user"}
      [] T = "RootQueryType" /\ f \in {"memberTypes", "memberType"} -> {"memberType"}
      [] T = "RootQueryType" /\ f \in {"users", "user"} -> {"user"}
      [] T = "RootQueryType" /\ f \in {"posts", "post"} -> {"post"}
      [] T = "RootQueryType" /\ f \in {"profiles", "profile"} -> {"profile"}
      [] T = "Mutations" /\ f \in {"createUser", "changeUser", "deleteUser"} -> {"user"}
      [] T = "Mutations" /\ f \in {"subscribeTo", "unsubscribeFrom"} ->
            {"subscribersOnAuthors"}
      [] OTHER -> {}

RECURSIVE TablesOf(_, _)
TablesOf(T, sels) ==
    IF sels = <<>> THEN {}
    ELSE LET s == Head(sels)
         IN  ( IF HasField(T, s.name)
               THEN TablesOfField(T, s.name) \cup
                    ( IF FieldType(T, s.name).t = Leaf THEN {}
                      ELSE TablesOf(FieldType(T, s.name).t, s.sel) )
               ELSE {} )
             \cup TablesOf(T, Tail(sels))

\* the rejections the store may answer a request with
Faults(doc) ==
    {NoFault} \cup
    [table : TablesOf(RootType(doc.op), doc.sel), kind : {"Error", "NonError"}]


(***************************************************************************)
(* State.                                                                  *)
(***************************************************************************)
VARIABLES
    handler,    \* which POST handler serves: "depth" (validate + depthLimit) or "plain"
    store,      \* the tables behind prisma
    nextId,     \* the next id prisma.user.create hands out
    pc,         \* "idle", "exec" (graphql() is executing), "done" (response built)
    req,        \* the document of the request being served
    fault,      \* the table whose calls reject during this request, if any
    phase,      \* per root field: "pending", "running", "completing", "settled", "failed"
    raw,        \* per root field: what its resolver answered
    vals,       \* per root field: its completed value
    errors,     \* exeContext.errors: the field errors recorded so far
    response,   \* what the handler returns
    created,    \* id -> dto of the users createUser made, until changed or deleted
    before      \* the rows of subscribersOnAuthors as the request was received

vars == <<handler, store, nextId, pc, req, fault, phase, raw, vals, errors,
          response, created, before>>

None == [k |-> "none"]

NoResponse == [kind |-> "none"]

\* { errors } of a failed validation: no data key
ErrorsOnly(errs) == [kind |-> "gql", hasData |-> FALSE, data |-> Null, errors |-> errs]

\* buildResponse(data, errors)
BuildResponse(data, errs) ==
    [kind |-> "gql", hasData |-> TRUE, data |-> data, errors |-> errs]

\* the handler's promise rejects (parse() threw): no GraphQL response
HandlerThrew == [kind |-> "thrown"]

SyntaxError == GqlError(<<"Syntax Error">>, <<>>)

InitialStore ==
    [ user |-> << [id |-> "1", name |-> "A", balance |-> 0],
                  [id |-> "2", name |-> "B", balance |-> 1] >>,
      post |-> << [id |-> "11", authorId |-> "1", title |-> "T"],
                  [id |-> "12", authorId |-> "2", title |-> "U"] >>,
      profile |-> << [id |-> "21", userId |-> "1", memberTypeId |-> "BASIC"],
                     [id |-> "22", userId |-> "2", memberTypeId |-> "BUSINESS"] >>,
      memberType |-> << [id |-> "BASIC", discount |-> 0] >>,
      subscribersOnAuthors |-> << [subscriberId |-> "1", authorId |-> "2"],
                                  [subscriberId |-> "2", authorId |-> "1"] >> ]

Idle ==
    /\ pc = "idle"
    /\ req = UnparsableDoc
    /\ fault = NoFault
    /\ phase = <<>>
    /\ raw = <<>>
    /\ vals = <<>>
    /\ errors = <<>>
    /\ response = NoResponse

Init ==
    /\ handler \in {"depth", "plain"}
    /\ store = InitialStore
    /\ nextId = Len(InitialStore.user) + 1
    /\ created = [i \in {} |-> DtoA]
    /\ before = <<>>
    /\ Idle

(***************************************************************************)
(* The handler up to the first await.                                      *)
(***************************************************************************)
\* validate(schema, parse(req.body.query), [depthLimit(limit)]) of the
\* depth-limiting handler; the plain handler has no such pass
DepthPassIgnored(h, doc) == <<>>

DepthPass(h, doc) == IF h = "depth" THEN DepthLimitErrors(doc) ELSE <<>>

\* if (errors.length) return { errors }; otherwise graphql() validates with
\* the specified rules and returns { errors } without executing
ValidationFailureNever(h, doc) == <<>>

ValidationFailure(h, doc) ==
    IF DepthPass(h, doc) # <<>> THEN DepthPass(h, doc)
    ELSE SpecifiedRulesErrors(doc)

\* executeOperation: the fields of a mutation run serially, the others at once
SerialNever(op) == FALSE

Serial(op) == op = "mutation"

\* the root fields whose resolvers are called as execution starts
StartPhases(doc) ==
    [i \in 1..Len(doc.sel) |->
        IF Serial(doc.op) /\ i > 1 THEN "pending" ELSE "running"]

Receive(doc, flt) ==
    /\ pc = "idle"
    /\ (nextId - Len(InitialStore.user) - 1) + CountField(doc.sel, "createUser")
           <= MaxCreated
    /\ req' = doc
    /\ fault' = flt
    /\ errors' = <<>>
    /\ raw' = [i \in 1..Len(doc.sel) |-> None]
    /\ vals' = [i \in 1..Len(doc.sel) |-> None]
    /\ IF ~doc.syntaxOk
       THEN /\ response' = IF handler = "depth" THEN HandlerThrew
                           ELSE ErrorsOnly(<<SyntaxError>>)
            /\ phase' = <<>>
            /\ pc' = "done"
       ELSE IF ValidationFailure(handler, doc) # <<>>
       THEN /\ response' = ErrorsOnly(ValidationFailure(handler, doc))
            /\ phase' = [i \in 1..Len(doc.sel) |-> "pending"]
            /\ pc' = "done"
       ELSE /\ response' = NoResponse
            /\ phase' = StartPhases(doc)
            /\ pc' = "exec"
    /\ before' = store.subscribersOnAuthors
    /\ UNCHANGED <<handler, store, nextId, created>>

(***************************************************************************)
(* The store answers the call of root field i and its resolver returns.    *)
(***************************************************************************)
CreatedAfter(f, args, ok, nid) ==
    IF ~ok THEN created
    ELSE IF f = "createUser"
        THEN [id \in DOMAIN created \cup {ToString(nid)} |->
                IF id = ToString(nid) THEN args.dto ELSE created[id]]
    ELSE IF f \in {"changeUser", "deleteUser"}
        THEN [id \in DOMAIN created \ {args.id} |-> created[id]]
    ELSE created

ResolverReturn(i) ==
    /\ pc = "exec"
    /\ i \in DOMAIN phase
    /\ phase[i] = "running"
    /\ phase' = [phase EXCEPT ![i] = "completing"]
    /\ IF req.op = "mutation"
       THEN LET m == MutationResolve(req.sel[i].name, req.sel[i].args,
                                     store, fault, nextId)
            IN  /\ raw' = [raw EXCEPT ![i] = m.out]
                /\ store' = m.st
                /\ nextId' = nextId + m.made
                /\ created' = CreatedAfter(req.sel[i].name, req.sel[i].args,
                                           m.out.k = "ok", nextId)
       ELSE /\ raw' = [raw EXCEPT ![i] =
                          QueryResolve("RootQueryType", req.sel[i].name, None,
                                       req.sel[i].args, store, fault)]
            /\ UNCHANGED <<store, nextId, created>>
    /\ UNCHANGED <<handler, pc, req, fault, vals, errors, response, before>>

(***************************************************************************)
(* Root field i settles: its value is completed against its type, with     *)
(* its selection set.  An error that reaches the root rejects the          *)
(* operation: data is null and nothing more is started.  Otherwise a       *)
(* serial operation starts its next field, and the response is built once  *)
(* every field has settled.                                                *)
(***************************************************************************)
DataOf(doc, vs) == Obj([i \in 1..Len(doc.sel) |-> [key |-> doc.sel[i].key, v |-> vs[i]]])

FieldSettle(i) ==
    /\ pc = "exec"
    /\ i \in DOMAIN phase
    /\ phase[i] = "completing"
    /\ LET r == CompleteField(RootType(req.op), req.sel[i], raw[i], store, fault,
                              <<req.sel[i].key>>)
       IN  IF r.thrown
           THEN /\ phase' = [phase EXCEPT ![i] = "failed"]
                /\ errors' = errors \o r.errs \o <<r.e>>
                /\ vals' = vals
                /\ response' = BuildResponse(Null, errors')
                /\ pc' = "done"
           ELSE /\ vals' = [vals EXCEPT ![i] = r.v]
                /\ errors' = errors \o r.errs
                /\ phase' = [j \in DOMAIN phase |->
                               IF j = i THEN "settled"
                               ELSE IF Serial(req.op) /\ j = i + 1 THEN "running"
                               ELSE phase[j]]
                /\ IF \A j \in DOMAIN phase : phase'[j] = "settled"
                   THEN /\ response' = BuildResponse(DataOf(req, vals'), errors')
                        /\ pc' = "done"
                   ELSE /\ response' = response
                        /\ pc' = pc
    /\ UNCHANGED <<handler, store, nextId, req, fault, raw, created, before>>

(***************************************************************************)
(* The response is sent; the request's state is dropped.                   *)
(***************************************************************************)
Respond ==
    /\ pc = "done"
    /\ pc' = "idle"
    /\ req' = UnparsableDoc
    /\ fault' = NoFault
    /\ phase' = <<>>
    /\ raw' = <<>>
    /\ vals' = <<>>
    /\ errors' = <<>>
    /\ response' = NoResponse
    /\ before' = <<>>
    /\ UNCHANGED <<handler, store, nextId, created>>

Next ==
    \/ \E doc \in Documents : \E flt \in Faults(doc) : Receive(doc, flt)
    \/ \E i \in 1..3 : ResolverReturn(i)
    \/ \E i \in 1..3 : FieldSettle(i)
    \/ Respond

Spec == Init /\ [][Next]_vars


(***************************************************************************)
(* Vocabulary of the properties.                                           *)
(***************************************************************************)
\* the response of a request that was executed (not rejected by validation)
Executed == pc = "done" /\ response.kind = "gql" /\ response.hasData

\* the response of a request that was rejected before execution
Rejected_ == pc = "done" /\ response.kind = "gql" /\ ~response.hasData

NoResolverCalled ==
    /\ \A i \in DOMAIN phase : phase[i] = "pending"
    /\ \A i \in DOMAIN raw : raw[i] = None
    /\ errors = <<>>

RECURSIVE SelectionDepth(_)
\* the depth of the deepest field of a selection set, its own fields at 0
SelectionDepth(sels) ==
    MaxSeq([i \in 1..Len(sels) |->
              IF sels[i].sel = <<>> THEN 0 ELSE 1 + SelectionDepth(sels[i].sel)])

RECURSIVE FieldsAtDepth(_, _)
\* how many fields of a selection set lie exactly d levels below it
FieldsAtDepth(sels, d) ==
    IF d = 0 THEN Len(sels)
    ELSE SumSeq([i \in 1..Len(sels) |-> FieldsAtDepth(sels[i].sel, d - 1)])

\* the value of response key `key` in a completed object
FieldOf(obj, key) == obj.f[CHOOSE i \in DOMAIN obj.f : obj.f[i].key = key].v

TitlesOf(posts) ==
    ListVal([i \in 1..Len(posts) |->
                Obj(<< [key |-> "title", v |-> LeafVal(posts[i].title)] >>)])

Exists(table, id) == \E r \in Range(store[table]) : r.id = id

(***************************************************************************)
(* C1.  In the depth-limiting handler, a document that fails validation    *)
(* (depth, or the structural and type rules) is answered with the error    *)
(* list only: there is no data and no resolver of the request has been     *)
(* called.                                                                 *)
(***************************************************************************)
C1_ValidationFailureShortCircuits ==
    ( /\ handler = "depth"
      /\ pc # "idle"
      /\ req.syntaxOk
      /\ (DepthLimitErrors(req) # <<>> \/ SpecifiedRulesErrors(req) # <<>>) )
    => ( /\ Rejected_
         /\ response.errors # <<>>
         /\ NoResolverCalled )

C1_Witness ==
    /\ handler = "depth"
    /\ pc = "done"
    /\ req.op = "mutation"
    /\ SpecifiedRulesErrors(req) # <<>>
    /\ response = ErrorsOnly(SpecifiedRulesErrors(req))
    /\ store = InitialStore

InFlight(i) == phase[i] \in {"running", "completing"}

C3_MutationsRunSerially ==
    (pc # "idle" /\ req.op = "mutation")
    => \A i \in DOMAIN phase :
          /\ phase[i] # "pending" =>
                \A j \in 1..(i - 1) : phase[j] = "settled" /\ vals[j] # None
          /\ InFlight(i) => \A j \in DOMAIN phase \ {i} : ~InFlight(j)

C3_Witness ==
    /\ pc = "exec"
    /\ req.op = "mutation"
    /\ Len(phase) = 2
    /\ req.sel[1].name = "createUser"
    /\ phase[1] = "settled"
    /\ vals[1].k = "obj"
    /\ FieldOf(vals[1], "posts") = ListVal(<<>>)
    /\ phase[2] = "running"


(***************************************************************************)
(* C4.  When Profile.memberType (non-null) fails or finds no member type,  *)
(* the nearest nullable ancestor (the root field profile, or User.profile) *)
(* is null in the result, every field outside it keeps its value, and the  *)
(* error list holds exactly one entry, whose path is that of memberType.   *)
(***************************************************************************)
\* the lookup of the member type of profile row p fails or finds nothing
MemberTypeLookupFails(p) ==
    \/ fault.table = "memberType"
    \/ ~Exists("memberType", p.memberTypeId)

C4_NullPropagatesToNearestNullable ==
    /\ \A p \in Range(store.profile) :
          ( /\ Executed
            /\ req = ProfileDoc(p.id)
            /\ fault.table \notin {"profile", "post"}
            /\ MemberTypeLookupFails(p) )
          => ( /\ response.data =
                     Obj(<< [key |-> "profile", v |-> Null],
                            [key |-> "posts", v |-> TitlesOf(store.post)] >>)
               /\ Len(response.errors) = 1
               /\ response.errors[1].path = <<"profile", "memberType">> )
    /\ \A p \in Range(store.profile) :
          ( /\ Executed
            /\ req = UserProfileDoc(p.userId)
            /\ Exists("user", p.userId)
            /\ fault.table \notin {"user", "profile"}
            /\ MemberTypeLookupFails(p) )
          => ( /\ response.data =
                     Obj(<< [key |-> "user",
                             v |-> Obj(<< [key |-> "id", v |-> LeafVal(p.userId)],
                                          [key |-> "profile", v |-> Null] >>)] >>)
               /\ Len(response.errors) = 1
               /\ response.errors[1].path = <<"user", "profile", "memberType">> )

C4_Witness ==
    /\ Executed
    /\ req = UserProfileDoc("2")
    /\ fault = NoFault
    /\ Exists("user", "2")
    /\ ~Exists("memberType", "BUSINESS")
    /\ FieldOf(FieldOf(response.data, "user"), "profile") = Null
    /\ Len(response.errors) = 1

(***************************************************************************)
(* C5.  A single-entity root field (memberType, user, post, profile)       *)
(* asked for an id no stored entity has is null in data and contributes    *)
(* no error; a query made of such fields only has an empty error list.     *)
(***************************************************************************)
SingleEntityFields == {"memberType", "user", "post", "profile"}

\* root selection s looks up an id that no row of its table has, and the
\* lookup itself is answered
LooksUpAbsent(s) ==
    /\ s.name \in SingleEntityFields
    /\ ~Exists(s.name, s.args.id)
    /\ fault.table # s.name

C5_AbsentEntityIsNull ==
    (Executed /\ req.op = "query")
    => /\ \A i \in DOMAIN req.sel :
             LooksUpAbsent(req.sel[i]) =>
                /\ response.data.k = "obj" => response.data.f[i].v = Null
                /\ \A n \in DOMAIN response.errors :
                      response.errors[n].path[1] # req.sel[i].key
       /\ (\A i \in DOMAIN req.sel : LooksUpAbsent(req.sel[i])) =>
             /\ response.data.k = "obj"
             /\ response.errors = <<>>

C5_Witness ==
    /\ Executed
    /\ req.op = "query"
    /\ Len(req.sel) = 1
    /\ req.sel[1].name = "post"
    /\ LooksUpAbsent(req.sel[1])
    /\ response.data = Obj(<< [key |-> "post", v |-> Null] >>)
    /\ response.errors = <<>>

(***************************************************************************)
(* C6.  Original statement: when the resolver of one root field fails,     *)
(* the resolver of every other selected root field is still called, in a   *)
(* query and in a mutation alike.                                          *)
(***************************************************************************)
ResolverFailed(i) == raw[i].k = "err"

C7_CreateThenQuery ==
    \A id \in DOMAIN created :
       (Executed /\ req = UserDoc(id) /\ fault.table # "user")
       => /\ response.errors = <<>>
          /\ FieldOf(response.data, "user").k = "obj"
          /\ FieldOf(FieldOf(response.data, "user"), "id") = LeafVal(id)
          /\ FieldOf(FieldOf(response.data, "user"), "name") =
                LeafVal(created[id].name)
          /\ FieldOf(FieldOf(response.data, "user"), "balance") =
                LeafVal(created[id].balance)

C7_Witness ==
    /\ Executed
    /\ \E id \in DOMAIN created :
          /\ req = UserDoc(id)
          /\ created[id] = DtoB
          /\ FieldOf(FieldOf(response.data, "user"), "balance") = LeafVal(1)

(***************************************************************************)
(* C8.  { users { id name posts { title } } } returns one object per       *)
(* stored user, in the order of the store, each with exactly the stored    *)
(* posts whose authorId is the user's id (an empty list when there are     *)
(* none), and no errors.                                                   *)
(***************************************************************************)
PostsOfAuthor(id) == SelectSeq(store.post, LAMBDA p : p.authorId = id)

UsersWithPosts ==
    ListVal([i \in 1..Len(store.user) |->
        Obj(<< [key |-> "id", v |-> LeafVal(store.user[i].id)],
               [key |-> "name", v |-> LeafVal(store.user[i].name)],
               [key |-> "posts", v |-> TitlesOf(PostsOfAuthor(store.user[i].id))] >>)])

C8_UsersWithPosts ==
    (pc = "done" /\ req = UsersWithPostsDoc /\ fault = NoFault)
    => response = BuildResponse(Obj(<< [key |-> "users", v |-> UsersWithPosts] >>), <<>>)

C8_Witness ==
    /\ Executed
    /\ req = UsersWithPostsDoc
    /\ fault = NoFault
    /\ Len(store.user) = 3
    /\ Len(PostsOfAuthor(store.user[1].id)) = 1
    /\ FieldOf(FieldOf(response.data, "users").items[1], "posts") =
          TitlesOf(<< store.post[1] >>)
    /\ FieldOf(FieldOf(response.data, "users").items[3], "posts") = ListVal(<<>>)

(***************************************************************************)
(* C9.  When a store call inside a resolver rejects with an internal       *)
(* error, the request completes with a field error for that field, and     *)
(* the message of that error does not contain the text of the underlying   *)
(* error.                                                                  *)
(***************************************************************************)
C9_GenericMessage ==
    (Executed /\ fault # NoFault)
    => \A n \in DOMAIN response.errors :
          InternalText \notin Range(response.errors[n].msg)

(***************************************************************************)
(* C10.  When the lookup of one related user of userSubscribedTo or        *)
(* subscribedToUser finds nothing, the non-null list is lost as a whole    *)
(* and null goes up to the nearest nullable ancestor only: the root field  *)
(* user (the fields beside it keep their values), or the data itself       *)
(* under the non-null list users.  One error is reported, at the position  *)
(* of the failing element.                                                 *)
(***************************************************************************)
\* the rows of the relation table that field `relation` of user id reads
RelationRows(relation, id) ==
    IF relation = "userSubscribedTo"
    THEN SelectSeq(store.subscribersOnAuthors, LAMBDA r : r.subscriberId = id)
    ELSE SelectSeq(store.subscribersOnAuthors, LAMBDA r : r.authorId = id)

RelatedId(relation, row) ==
    IF relation = "userSubscribedTo" THEN row.authorId ELSE row.subscriberId

\* positions of the related users that are not in the store
Dangling(relation, id) ==
    {n \in 1..Len(RelationRows(relation, id)) :
        ~Exists("user", RelatedId(relation, RelationRows(relation, id)[n]))}

FirstOf(S) == CHOOSE n \in S : \A m \in S : n <= m

C10_NonNullListPropagation ==
    /\ \A relation \in {"userSubscribedTo", "subscribedToUser"} :
          ( /\ pc = "done"
            /\ req = RelationDoc("1", relation)
            /\ fault = NoFault
            /\ Exists("user", "1")
            /\ Dangling(relation, "1") # {} )
          => ( /\ response.hasData
               /\ response.data =
                     Obj(<< [key |-> "user", v |-> Null],
                            [key |-> "posts", v |-> TitlesOf(store.post)] >>)
               /\ Len(response.errors) = 1
               /\ response.errors[1].path =
                     <<"user", relation,
                       ToString(FirstOf(Dangling(relation, "1")) - 1)>> )
    /\ ( /\ pc = "done"
         /\ req = UsersRelationDoc
         /\ fault = NoFault
         /\ \E u \in Range(store.user) : Dangling("userSubscribedTo", u.id) # {} )
       => ( /\ response.hasData
            /\ response.data = Null
            /\ Len(response.errors) = 1
            /\ Len(response.errors[1].path) = 4
            /\ response.errors[1].path[3] = "userSubscribedTo" )

C10_Witness ==
    /\ Executed
    /\ req = RelationDoc("1", "userSubscribedTo")
    /\ fault = NoFault
    /\ Dangling("userSubscribedTo", "1") = {1}
    /\ FieldOf(response.data, "user") = Null
    /\ FieldOf(response.data, "posts") = TitlesOf(store.post)
    /\ response.errors[1].path = <<"user", "userSubscribedTo", "0">>

(***************************************************************************)
(* C11.  The response to a query is the same under every interleaving of   *)
(* its sibling resolvers: it is the response of the interleaving in which  *)
(* the root fields complete one after another in document order, with the  *)
(* same data tree and the same errors in the same order.                   *)
(***************************************************************************)
\* the response when the fields complete in document order
InOrderResponse(doc, st, flt) ==
    LET r == ExecuteFields(RootType(doc.op), doc.sel, None, st, flt, <<>>)
    IN  IF r.thrown THEN BuildResponse(Null, r.errs \o <<r.e>>)
        ELSE BuildResponse(r.v, r.errs)

C11_InterleavingIndependent ==
    (Executed /\ req.op = "query")
    => response = InOrderResponse(req, store, fault)

(***************************************************************************)
(* C12.  Whichever handler serves the request, a document whose selection  *)
(* is nested deeper than the fixed bound 5 is rejected with the reports    *)
(* of the depth rule for that bound and no resolver is called.             *)
(***************************************************************************)
C12_EveryHandlerLimitsDepth ==
    \A h \in {"depth", "plain"} :
        ( /\ handler = h
          /\ pc # "idle"
          /\ req.syntaxOk
          /\ SelectionDepth(req.sel) > limit )
        => ( /\ Rejected_
             /\ Len(response.errors) = DepthReports(req.sel, 0, 5)
             /\ \A e \in Range(response.errors) :
                    e.msg = <<"'", req.op, "' exceeds maximum operation depth of ", "5">>
             /\ NoResolverCalled )

(***************************************************************************)
(* C13.  subscribeTo and unsubscribeFrom toggle a directed relation.       *)
(* A successful subscribeTo(u, a) adds the row (u, a) and nothing else:    *)
(* for stored users, a is listed by userSubscribedTo of u and u by         *)
(* subscribedToUser of a, and u is listed by userSubscribedTo of a only    *)
(* if it was before.  A successful unsubscribeFrom(u, a) right after it    *)
(* leaves the relation table as it was before the subscribeTo.  A          *)
(* subscribeTo of an existing relation or an unsubscribeFrom of a missing  *)
(* one fails; a failed call is answered with one 'Failed to subscribe' or  *)
(* 'Failed to unsubscribe' field error and the table is unchanged.         *)
(***************************************************************************)
SubRow(u, a) == [subscriberId |-> u, authorId |-> a]

StoredUser(id) == CHOOSE r \in Range(store.user) : r.id = id

\* the ids of the users the resolver of `relation` lists for stored user id
ListedBy(relation, id) ==
    LET out == QueryResolve("User", relation, StoredUser(id), NoArgs, store, NoFault)
    IN  IF out.k = "err" THEN {}
        ELSE {out.v.items[n].r.id :
                n \in {m \in 1..Len(out.v.items) : out.v.items[m].k = "row"}}

FailedWith(field, prefix) ==
    /\ response.kind = "gql"
    /\ response.hasData
    /\ response.data = Null
    /\ Len(response.errors) = 1
    /\ response.errors[1].msg[1] = prefix
    /\ response.errors[1].path = <<field>>

C13_RelationToggle ==
    \A p \in SubPairs :
      LET u == p[1]
          a == p[2]
      IN
        /\ (pc = "done" /\ req = SubscribeDoc(u, a))
           => IF response.errors = <<>>
              THEN /\ response.data =
                         Obj(<< [key |-> "subscribeTo", v |-> LeafVal("Subscribed")] >>)
                   /\ SubRow(u, a) \notin Range(before)
                   /\ store.subscribersOnAuthors = Append(before, SubRow(u, a))
                   /\ (Exists("user", u) /\ Exists("user", a))
                      => ( /\ a \in ListedBy("userSubscribedTo", u)
                           /\ u \in ListedBy("subscribedToUser", a)
                           /\ u \in ListedBy("userSubscribedTo", a)
                                <=> SubRow(a, u) \in Range(before) )
              ELSE /\ FailedWith("subscribeTo", "Failed to subscribe: ")
                   /\ store.subscribersOnAuthors = before
        /\ (pc = "done" /\ req = SubscribeDoc(u, a) /\ SubRow(u, a) \in Range(before))
           => response.errors # <<>>
        /\ (pc = "done" /\ req = UnsubscribeDoc(u, a))
           => IF response.errors = <<>>
              THEN /\ response.data =
                         Obj(<< [key |-> "unsubscribeFrom", v |-> LeafVal("Unsubscribed")] >>)
                   /\ SubRow(u, a) \in Range(before)
                   /\ Range(store.subscribersOnAuthors) = Range(before) \ {SubRow(u, a)}
              ELSE /\ FailedWith("unsubscribeFrom", "Failed to unsubscribe: ")
                   /\ store.subscribersOnAuthors = before
        /\ (pc = "done" /\ req = UnsubscribeDoc(u, a) /\ SubRow(u, a) \notin Range(before))
           => response.errors # <<>>
        /\ (pc = "done" /\ req = ToggleDoc(u, a) /\ response.errors = <<>>)
           => /\ SubRow(u, a) \notin Range(before)
              /\ store.subscribersOnAuthors = before

\* subscribeTo(1, 2) then unsubscribeFrom(1, 2) both succeeded while 2 still
\* follows 1
C13_Witness ==
    /\ Executed
    /\ req = ToggleDoc("1", "2")
    /\ response.errors = <<>>
    /\ before = << SubRow("2", "1") >>
    /\ store.subscribersOnAuthors = before

(***************************************************************************)
(* C14.  Whatever mutations have run, the two relation fields are mutual   *)
(* inverses over the stored users: v is listed by userSubscribedTo of u    *)
(* exactly when u is listed by subscribedToUser of v, and the list a       *)
(* relation resolver returns has one entry per row of the relation table   *)
(* for that user.  When every related user is stored, the response lists   *)
(* them in the order of the rows.                                          *)
(***************************************************************************)
StoredIds == {r.id : r \in Range(store.user)}

\* how many entries the resolver of `relation` returns for stored user id
EntriesOf(relation, id) ==
    Len(QueryResolve("User", relation, StoredUser(id), NoArgs, store, NoFault).v.items)

IdsOf(relation, rows) ==
    ListVal([i \in 1..Len(rows) |->
                Obj(<< [key |-> "id", v |-> LeafVal(RelatedId(relation, rows[i]))] >>)])

\* a query in flight leaves the store as it was when the request was received
QueryInFlight == pc = "exec" /\ req.op = "query"

C14_RelationsAreInverse ==
    /\ ~QueryInFlight
       => /\ \A u \in StoredIds : \A v \in StoredIds :
                v \in ListedBy("userSubscribedTo", u)
                  <=> u \in ListedBy("subscribedToUser", v)
          /\ \A u \in StoredIds :
                \A relation \in {"userSubscribedTo", "subscribedToUser"} :
                   EntriesOf(relation, u) = Len(RelationRows(relation, u))
    /\ \A n \in {"1", "2"} : \A relation \in {"userSubscribedTo", "subscribedToUser"} :
          ( /\ pc = "done"
            /\ req = RelationDoc(n, relation)
            /\ fault = NoFault
            /\ Exists("user", n)
            /\ Dangling(relation, n) = {} )
          => ( /\ Executed
               /\ response.errors = <<>>
               /\ FieldOf(FieldOf(response.data, "user"), relation) =
                     IdsOf(relation, RelationRows(relation, n)) )

\* after unsubscribeFrom(2, 1) and createUser: 1 follows 2 and nobody follows 1
C14_Witness ==
    /\ Executed
    /\ req = RelationDoc("2", "subscribedToUser")
    /\ fault = NoFault
    /\ store.subscribersOnAuthors = << SubRow("1", "2") >>
    /\ StoredIds = {"1", "2", "3"}
    /\ ListedBy("userSubscribedTo", "1") = {"2"}
    /\ ListedBy("userSubscribedTo", "2") = {}
    /\ FieldOf(FieldOf(response.data, "user"), "subscribedToUser") =
          IdsOf("subscribedToUser", << SubRow("1", "2") >>)

=============================================================================
